---- MODULE Spec2Model ----
(***************************************************************************)
(* Verification model of the Rust snippets of the code library.  Every     *)
(* snippet is an independent program, so every snippet has its own group   *)
(* of variables, its own initial condition and its own specification; the  *)
(* variables of the other snippets stay at their idle values.              *)
(***************************************************************************)
EXTENDS Integers, Sequences, FiniteSets, TLC

VARIABLES
    \* multithreading_basic.rs :: shared_mutable_state
    counter,        \* the i32 inside Arc<Mutex<i32>>
    mutex,          \* holder of the Mutex: NoThread or a thread index
    smPc,           \* position of each spawned thread
    smNum,          \* value each thread sees through its MutexGuard (0 once the guard is dropped)
    smMain,         \* position of the main thread
    smI,            \* loop index of the spawn loop / join loop
    final_value,    \* value read by the main thread after the joins
    \* multithreading_basic.rs :: spawn_and_join_threads
    sjPc,           \* position of each spawned thread
    sjRet,          \* value returned by each thread's closure (NoValue before)
    sjMain,         \* position of the main thread
    sjI,            \* loop index of the spawn loop / join loop
    results,        \* the vector `results`
    \* tokio_mpsc_channel.rs :: run_mpsc_example
    chan,           \* values sent and not yet received (the channel's buffer)
    txDropped,      \* TRUE once the only Sender `tx` has been dropped
    senderPc,       \* position of sender_task
    senderI,        \* loop variable `i` of sender_task
    mpMain,         \* position of run_mpsc_example (the receiver)
    received,       \* values the receiver loop got from rx.recv(), in order
    sentCount,      \* number of tx.send(i) calls that returned Ok
    \* tokio_spawn_tasks.rs :: run_async_tasks
    taskPc,         \* position of task1 / task2
    taskRet,        \* output stored in each JoinHandle (NoValue before completion)
    atMain,         \* position of run_async_tasks
    result1,
    result2,
    atLog,          \* lines printed so far, in order
    \* websocket_client_tungstenite.rs :: run_websocket_client
    wsPc,           \* position of run_websocket_client
    wsResult,       \* "none" while running, then "Ok" or "Err"
    wsErr,          \* which library error the returned Err carries ("none" otherwise)
    wsSent,         \* messages given to write.send() that were sent, in order
    wsRead,         \* items yielded so far by read.next(), in order
    \* http_get_request.rs :: http_get_text
    httpPc,         \* position of http_get_text
    httpStatus,     \* status code of the response (0 before a response exists)
    httpResult,     \* "none", "OkBody", "ErrSend", "ErrBody", "ErrStatus" or "Panic"
    httpErrStatus,  \* status code carried by the returned error (0 if none)
    \* execute_command.rs :: execute_command
    ecPc,           \* position of execute_command
    ecHasInput,     \* input.is_some()
    ecLeft,         \* bytes of input_data write_all still has to write
    ecResult,       \* "none" while running, then "Ok" or "Err"
    ecCaptured,     \* bytes of child output collected by wait_with_output
    pipeCap,        \* capacity of an OS pipe, in bytes
    stdinPipe,      \* bytes in the child's stdin pipe
    stdinOpen,      \* TRUE while the parent holds the write end of the stdin pipe
    stdoutPipe,     \* bytes in the child's stdout pipe
    childKind,      \* behaviour of the spawned program
    childRatio,     \* bytes a filter child writes for each byte it reads; bytes a child
                    \* that reads no piped input writes in all
    childState,     \* "none", "running", "exited" (not yet waited for) or "reaped"
    childPending,   \* bytes the child still has to write before it reads again
    \* thiserror_custom_error.rs :: process_data
    pdPc,           \* position of process_data
    pdInput,        \* input_str, a sequence of characters
    pdFileOpens,    \* TRUE when File::open(file_path) succeeds
    pdNumber,       \* the local `number` (0 before the parse)
    pdKind,         \* "none", "Ok", "Io", "Parse", "InvalidData" or "ConfigError"
    pdValue,        \* the i32 inside Ok (0 otherwise)
    \* write_text_file.rs :: write_text_file, read_text_file.rs :: read_text_file
    fsExists,       \* TRUE when the file at `filepath` exists
    fsContent,      \* its content, a sequence of characters
    tfCalls,        \* number of write_text_file calls made
    tfPrevExists,   \* fsExists before the latest write_text_file call
    tfPrev,         \* fsContent before the latest write_text_file call
    tfLines,        \* `lines` of the latest successful write_text_file call
    tfOverwrite,    \* `overwrite` of the latest write_text_file call
    tfWriteResult,  \* "none", "Ok" or "Err": result of the latest write_text_file call
    tfAppended,     \* the lines of all calls so far, in call order
    tfOnlyAppends,  \* TRUE while the file was missing at first and every call was a successful append
    tfRead,         \* result of read_text_file since the latest write (NotRead before)
    \* json_serialization.rs
    jsPoint,        \* the Point that is serialized
    jsStrPc,        \* "serialize", "deserialize" or "done": the JSON string round trip
    jsString,       \* Ok result of serialize_struct_to_json_string, a sequence of characters
    jsFromString,   \* result of deserialize_json_string_to_struct
    jsValPc,        \* "serialize", "deserialize" or "done": the serde_json::Value round trip
    jsValue,        \* Ok result of serialize_struct_to_json_value
    jsFromValue,    \* result of deserialize_json_value_to_struct
    \* rayon_parallel_iteration.rs
    rsNumbers,      \* the input slice
    rsChecked,      \* TRUE: built with overflow checks (an overflow panics); FALSE: it wraps
    rsSeqPc,        \* "call" or "done": sum_of_squares_sequential
    rsSeq,          \* its outcome
    rsParPc,        \* "running" or "done": sum_of_squares_parallel
    rsParts,        \* the chunks the runtime has split the slice into, left to right
    rsCombines,     \* how many pairs of partial sums have been combined
    rsPar           \* its outcome

smVars == <<counter, mutex, smPc, smNum, smMain, smI, final_value>>
sjVars == <<sjPc, sjRet, sjMain, sjI, results>>
mpVars == <<chan, txDropped, senderPc, senderI, mpMain, received, sentCount>>
atVars == <<taskPc, taskRet, atMain, result1, result2, atLog>>
wsVars == <<wsPc, wsResult, wsErr, wsSent, wsRead>>
httpVars == <<httpPc, httpStatus, httpResult, httpErrStatus>>
ecVars == <<ecPc, ecHasInput, ecLeft, ecResult, ecCaptured, pipeCap, stdinPipe, stdinOpen,
            stdoutPipe, childKind, childRatio, childState, childPending>>
pdVars == <<pdPc, pdInput, pdFileOpens, pdNumber, pdKind, pdValue>>
tfVars == <<fsExists, fsContent, tfCalls, tfPrevExists, tfPrev, tfLines, tfOverwrite, tfWriteResult, tfAppended, tfOnlyAppends, tfRead>>
jsVars == <<jsPoint, jsStrPc, jsString, jsFromString, jsValPc, jsValue, jsFromValue>>
rsVars == <<rsNumbers, rsChecked, rsSeqPc, rsSeq, rsParPc, rsParts, rsCombines, rsPar>>

\* the variables of the other snippets, which a snippet never touches
smOthers == <<sjVars, mpVars, atVars, wsVars, httpVars, ecVars, pdVars, tfVars, jsVars, rsVars>>
sjOthers == <<smVars, mpVars, atVars, wsVars, httpVars, ecVars, pdVars, tfVars, jsVars, rsVars>>
mpOthers == <<smVars, sjVars, atVars, wsVars, httpVars, ecVars, pdVars, tfVars, jsVars, rsVars>>
atOthers == <<smVars, sjVars, mpVars, wsVars, httpVars, ecVars, pdVars, tfVars, jsVars, rsVars>>
wsOthers == <<smVars, sjVars, mpVars, atVars, httpVars, ecVars, pdVars, tfVars, jsVars, rsVars>>
httpOthers == <<smVars, sjVars, mpVars, atVars, wsVars, ecVars, pdVars, tfVars, jsVars, rsVars>>
ecOthers == <<smVars, sjVars, mpVars, atVars, wsVars, httpVars, pdVars, tfVars, jsVars, rsVars>>
pdOthers == <<smVars, sjVars, mpVars, atVars, wsVars, httpVars, ecVars, tfVars, jsVars, rsVars>>
tfOthers == <<smVars, sjVars, mpVars, atVars, wsVars, httpVars, ecVars, pdVars, jsVars, rsVars>>
jsOthers == <<smVars, sjVars, mpVars, atVars, wsVars, httpVars, ecVars, pdVars, tfVars, rsVars>>
rsOthers == <<smVars, sjVars, mpVars, atVars, wsVars, httpVars, ecVars, pdVars, tfVars, jsVars>>

NoThread == -1
NoValue == -1

(***************************************************************************)
(* multithreading_basic.rs :: shared_mutable_state                         *)
(***************************************************************************)
NumCounterThreads == 10
CounterThreads == 0 .. NumCounterThreads - 1

SmIdle ==
    /\ counter = 0
    /\ mutex = NoThread
    /\ smPc = [t \in CounterThreads |-> "unspawned"]
    /\ smNum = [t \in CounterThreads |-> 0]
    /\ smMain = "idle"
    /\ smI = 0
    /\ final_value = NoValue

SmInit ==
    /\ counter = 0
    /\ mutex = NoThread
    /\ smPc = [t \in CounterThreads |-> "unspawned"]
    /\ smNum = [t \in CounterThreads |-> 0]
    /\ smMain = "spawn"
    /\ smI = 0
    /\ final_value = NoValue

\* Mutex::lock succeeds only when nobody holds the lock; otherwise it blocks.
LockFreeBroken(holder) == TRUE
LockFree(holder) == holder = NoThread

\* `*num += 1` on the value seen through the guard (i32, wrapping is out of reach).
AddOneLost(n) == n
AddOne(n) == n + 1

\* for i in 0..10 { handles.push(thread::spawn(...)) }
SmSpawn ==
    /\ smMain = "spawn"
    /\ smI < NumCounterThreads
    /\ smPc' = [smPc EXCEPT ![smI] = "lock"]
    /\ smI' = smI + 1
    /\ smMain' = IF smI + 1 = NumCounterThreads THEN "join" ELSE "spawn"
    /\ UNCHANGED <<counter, mutex, smNum, final_value>>
    /\ UNCHANGED smOthers

\* let mut num = counter_clone.lock().unwrap();
SmThreadLock(t) ==
    /\ smPc[t] = "lock"
    /\ LockFree(mutex)
    /\ mutex' = t
    /\ smNum' = [smNum EXCEPT ![t] = counter]
    /\ smPc' = [smPc EXCEPT ![t] = "incr"]
    /\ UNCHANGED <<counter, smMain, smI, final_value>>
    /\ UNCHANGED smOthers

\* *num += 1;
SmThreadIncr(t) ==
    /\ smPc[t] = "incr"
    /\ counter' = AddOne(smNum[t])
    /\ smPc' = [smPc EXCEPT ![t] = "unlock"]
    /\ UNCHANGED <<mutex, smNum, smMain, smI, final_value>>
    /\ UNCHANGED smOthers

\* the MutexGuard goes out of scope and the closure returns
SmThreadUnlock(t) ==
    /\ smPc[t] = "unlock"
    /\ mutex' = IF mutex = t THEN NoThread ELSE mutex
    /\ smNum' = [smNum EXCEPT ![t] = 0]
    /\ smPc' = [smPc EXCEPT ![t] = "done"]
    /\ UNCHANGED <<counter, smMain, smI, final_value>>
    /\ UNCHANGED smOthers

\* for handle in handles { handle.join().unwrap(); }
SmJoin ==
    /\ smMain = "join"
    /\ smI > 0
    /\ smPc[NumCounterThreads - smI] = "done"
    /\ smI' = smI - 1
    /\ smMain' = IF smI = 1 THEN "read" ELSE "join"
    /\ UNCHANGED <<counter, mutex, smPc, smNum, final_value>>
    /\ UNCHANGED smOthers

\* let final_value = *counter.lock().unwrap(); assert_eq!(final_value, 10);
SmRead ==
    /\ smMain = "read"
    /\ LockFree(mutex)
    /\ final_value' = counter
    /\ smMain' = IF counter = 10 THEN "done" ELSE "panicked"
    /\ UNCHANGED <<counter, mutex, smPc, smNum, smI>>
    /\ UNCHANGED smOthers

(***************************************************************************)
(* multithreading_basic.rs :: spawn_and_join_threads                       *)
(***************************************************************************)
NumJoinThreads == 5
JoinThreads == 0 .. NumJoinThreads - 1

SjIdle ==
    /\ sjPc = [t \in JoinThreads |-> "unspawned"]
    /\ sjRet = [t \in JoinThreads |-> NoValue]
    /\ sjMain = "idle"
    /\ sjI = 0
    /\ results = <<>>

SjInit ==
    /\ sjPc = [t \in JoinThreads |-> "unspawned"]
    /\ sjRet = [t \in JoinThreads |-> NoValue]
    /\ sjMain = "spawn"
    /\ sjI = 0
    /\ results = <<>>

\* JoinHandle::join returns once the thread has finished.
JoinReadyNoWait(pc) == pc # "unspawned"
JoinReady(pc) == pc = "done"

\* the closure's value: i * 2
ClosureValue(i) == i * 2

\* for i in 0..5 { handles.push(thread::spawn(move || ...)) }
SjSpawn ==
    /\ sjMain = "spawn"
    /\ sjI < NumJoinThreads
    /\ sjPc' = [sjPc EXCEPT ![sjI] = "started"]
    /\ sjI' = sjI + 1
    /\ sjMain' = IF sjI + 1 = NumJoinThreads THEN "join" ELSE "spawn"
    /\ UNCHANGED <<sjRet, results>>
    /\ UNCHANGED sjOthers

\* println!("Thread {} started."); thread::sleep(50 * i ms)
SjThreadSleep(t) ==
    /\ sjPc[t] = "started"
    /\ sjPc' = [sjPc EXCEPT ![t] = "sleeping"]
    /\ UNCHANGED <<sjRet, sjMain, sjI, results>>
    /\ UNCHANGED sjOthers

\* println!("Thread {} finished."); i * 2
SjThreadFinish(t) ==
    /\ sjPc[t] = "sleeping"
    /\ sjPc' = [sjPc EXCEPT ![t] = "done"]
    /\ sjRet' = [sjRet EXCEPT ![t] = ClosureValue(t)]
    /\ UNCHANGED <<sjMain, sjI, results>>
    /\ UNCHANGED sjOthers

\* for handle in handles { match handle.join() { Ok(result) => results.push(result) .. } }
SjJoin ==
    /\ sjMain = "join"
    /\ sjI > 0
    /\ JoinReady(sjPc[NumJoinThreads - sjI])
    /\ results' = Append(results, sjRet[NumJoinThreads - sjI])
    /\ sjI' = sjI - 1
    /\ sjMain' = IF sjI = 1 THEN "joined" ELSE "join"
    /\ UNCHANGED <<sjPc, sjRet>>
    /\ UNCHANGED sjOthers

(***************************************************************************)
(* tokio_mpsc_channel.rs :: run_mpsc_example                               *)
(***************************************************************************)
ChannelCapacity == 32
NumValues == 10

MpIdle ==
    /\ chan = <<>>
    /\ txDropped = FALSE
    /\ senderPc = "unspawned"
    /\ senderI = 0
    /\ mpMain = "idle"
    /\ received = <<>>
    /\ sentCount = 0

MpInit ==
    /\ chan = <<>>
    /\ txDropped = FALSE
    /\ senderPc = "unspawned"
    /\ senderI = 0
    /\ mpMain = "spawn"
    /\ received = <<>>
    /\ sentCount = 0

\* tx.send(i).await completes only when the buffer has a free slot.
SendReady(buf) == Len(buf) < ChannelCapacity

\* a completed send puts the value at the back of the buffer
ChanPushOverwrite(buf, v) == IF buf = <<>> THEN <<v>> ELSE [buf EXCEPT ![Len(buf)] = v]
ChanPush(buf, v) == Append(buf, v)

\* rx.recv() yields the value at the front of the buffer
ChanFrontNewest(buf) == buf[Len(buf)]
ChanFront(buf) == Head(buf)

ChanRestNewest(buf) == SubSeq(buf, 1, Len(buf) - 1)
ChanRest(buf) == Tail(buf)

\* `tx` is owned by the sender task and dropped when the task finishes
TxAfterTaskLeaked(dropped) == dropped
TxAfterTask(dropped) == TRUE

\* rx.recv() returns None when every Sender is gone and the buffer is empty
RecvClosedEarly(dropped, buf) == buf = <<>>
RecvClosed(dropped, buf) == dropped /\ buf = <<>>

\* let sender_task = tokio::spawn(async move { ... });
MpSpawn ==
    /\ mpMain = "spawn"
    /\ senderPc' = "send"
    /\ mpMain' = "recv"
    /\ UNCHANGED <<chan, txDropped, senderI, received, sentCount>>
    /\ UNCHANGED mpOthers

\* tx.send(i).await  (the Err branch needs a dropped `rx`; `rx` lives until
\* run_mpsc_example returns, which is after sender_task has been awaited)
SenderSend ==
    /\ senderPc = "send"
    /\ SendReady(chan)
    /\ chan' = ChanPush(chan, senderI)
    /\ sentCount' = sentCount + 1
    /\ senderPc' = "sleep"
    /\ UNCHANGED <<txDropped, senderI, mpMain, received>>
    /\ UNCHANGED mpOthers

\* sleep(20 ms).await; next iteration of `for i in 0..10`
SenderSleep ==
    /\ senderPc = "sleep"
    /\ senderI' = senderI + 1
    /\ senderPc' = IF senderI + 1 < NumValues THEN "send" ELSE "finish"
    /\ UNCHANGED <<chan, txDropped, mpMain, received, sentCount>>
    /\ UNCHANGED mpOthers

\* println!("Sender: Finished sending all values."); the task ends, `tx` is dropped
SenderFinish ==
    /\ senderPc = "finish"
    /\ txDropped' = TxAfterTask(txDropped)
    /\ senderPc' = "done"
    /\ UNCHANGED <<chan, senderI, mpMain, received, sentCount>>
    /\ UNCHANGED mpOthers

\* while let Some(value) = rx.recv().await
MpRecvSome ==
    /\ mpMain = "recv"
    /\ chan # <<>>
    /\ received' = Append(received, ChanFront(chan))
    /\ chan' = ChanRest(chan)
    /\ mpMain' = "sleep"
    /\ UNCHANGED <<txDropped, senderPc, senderI, sentCount>>
    /\ UNCHANGED mpOthers

\* sleep(50 ms).await in the loop body
MpRecvSleep ==
    /\ mpMain = "sleep"
    /\ mpMain' = "recv"
    /\ UNCHANGED <<chan, txDropped, senderPc, senderI, received, sentCount>>
    /\ UNCHANGED mpOthers

\* rx.recv() returned None: the loop ends
MpRecvNone ==
    /\ mpMain = "recv"
    /\ RecvClosed(txDropped, chan)
    /\ mpMain' = "await"
    /\ UNCHANGED <<chan, txDropped, senderPc, senderI, received, sentCount>>
    /\ UNCHANGED mpOthers

\* sender_task.await
MpAwaitSender ==
    /\ mpMain = "await"
    /\ senderPc = "done"
    /\ mpMain' = "done"
    /\ UNCHANGED <<chan, txDropped, senderPc, senderI, received, sentCount>>
    /\ UNCHANGED mpOthers

(***************************************************************************)
(* tokio_spawn_tasks.rs :: run_async_tasks                                 *)
(***************************************************************************)
Tasks == {1, 2}

AtIdle ==
    /\ taskPc = [t \in Tasks |-> "unspawned"]
    /\ taskRet = [t \in Tasks |-> NoValue]
    /\ atMain = "idle"
    /\ result1 = NoValue
    /\ result2 = NoValue
    /\ atLog = <<>>

AtInit ==
    /\ taskPc = [t \in Tasks |-> "unspawned"]
    /\ taskRet = [t \in Tasks |-> NoValue]
    /\ atMain = "start"
    /\ result1 = NoValue
    /\ result2 = NoValue
    /\ atLog = <<>>

\* the value each async block evaluates to
TaskValue(t) == IF t = 1 THEN 42 ELSE 24

\* JoinHandle.await completes once the task has completed
AwaitReadyNoWait(pc) == TRUE
AwaitReady(pc) == pc = "done"

\* println!("Spawning async tasks...");
AtStart ==
    /\ atMain = "start"
    /\ atLog' = Append(atLog, "Spawning async tasks...")
    /\ atMain' = "spawn1"
    /\ UNCHANGED <<taskPc, taskRet, result1, result2>>
    /\ UNCHANGED atOthers

\* let task1 = task::spawn(async { ... });
AtSpawn1 ==
    /\ atMain = "spawn1"
    /\ taskPc' = [taskPc EXCEPT ![1] = "started"]
    /\ atMain' = "spawn2"
    /\ UNCHANGED <<taskRet, result1, result2, atLog>>
    /\ UNCHANGED atOthers

\* let task2 = task::spawn(async { ... }); println!("Tasks spawned, ...");
AtSpawn2 ==
    /\ atMain = "spawn2"
    /\ taskPc' = [taskPc EXCEPT ![2] = "started"]
    /\ atLog' = Append(atLog, "Tasks spawned, waiting for results...")
    /\ atMain' = "await1"
    /\ UNCHANGED <<taskRet, result1, result2>>
    /\ UNCHANGED atOthers

\* println!("Task n: Started"); sleep(..).await
TaskStart(t) ==
    /\ taskPc[t] = "started"
    /\ atLog' = Append(atLog, IF t = 1 THEN "Task 1: Started" ELSE "Task 2: Started")
    /\ taskPc' = [taskPc EXCEPT ![t] = "sleeping"]
    /\ UNCHANGED <<taskRet, atMain, result1, result2>>
    /\ UNCHANGED atOthers

\* println!("Task n: Finished"); 42 / 24
TaskFinish(t) ==
    /\ taskPc[t] = "sleeping"
    /\ atLog' = Append(atLog, IF t = 1 THEN "Task 1: Finished" ELSE "Task 2: Finished")
    /\ taskRet' = [taskRet EXCEPT ![t] = TaskValue(t)]
    /\ taskPc' = [taskPc EXCEPT ![t] = "done"]
    /\ UNCHANGED <<atMain, result1, result2>>
    /\ UNCHANGED atOthers

\* let result1 = task1.await.unwrap(); println!("Task 1 result received: ..");
AtAwait1 ==
    /\ atMain = "await1"
    /\ AwaitReady(taskPc[1])
    /\ result1' = taskRet[1]
    /\ atLog' = Append(atLog, "Task 1 result received")
    /\ atMain' = "await2"
    /\ UNCHANGED <<taskPc, taskRet, result2>>
    /\ UNCHANGED atOthers

\* let result2 = task2.await.unwrap(); println!("Task 2 result received: ..");
AtAwait2 ==
    /\ atMain = "await2"
    /\ AwaitReady(taskPc[2])
    /\ result2' = taskRet[2]
    /\ atLog' = Append(atLog, "Task 2 result received")
    /\ atMain' = "report"
    /\ UNCHANGED <<taskPc, taskRet, result1>>
    /\ UNCHANGED atOthers

\* println!("All tasks completed. Final results: {} and {}", result1, result2);
AtReport ==
    /\ atMain = "report"
    /\ atLog' = Append(atLog, "All tasks completed")
    /\ atMain' = "done"
    /\ UNCHANGED <<taskPc, taskRet, result1, result2>>
    /\ UNCHANGED atOthers

(***************************************************************************)
(* websocket_client_tungstenite.rs :: run_websocket_client                 *)
(***************************************************************************)
MaxWsMessages == 3
PingPayloads == {"a", "b"}

\* what read.next().await can yield
WsTextItems == {[kind |-> "Text", echo |-> e] : e \in BOOLEAN}
WsPingItems == {[kind |-> "Ping", data |-> d] : d \in PingPayloads}
WsPlainItems == {[kind |-> k] : k \in {"Binary", "Pong"}}
WsCloseItem == [kind |-> "Close"]
WsErrItem == [kind |-> "RecvError"]
WsEndItem == [kind |-> "End"]

HelloText == [kind |-> "Text", data |-> "Hello, WebSocket from Rust!"]
\* the Pong carries the payload of the Ping it answers
PongEmpty(item) == [kind |-> "Pong", data |-> ""]
PongOf(item) == [kind |-> "Pong", data |-> item.data]

\* if text.contains(message_to_send) { break; }
EchoNeverStops(item) == FALSE
EchoStops(item) == item.echo

WsIdle ==
    /\ wsPc = "idle"
    /\ wsResult = "none"
    /\ wsErr = "none"
    /\ wsSent = <<>>
    /\ wsRead = <<>>

WsInit ==
    /\ wsPc = "parse"
    /\ wsResult = "none"
    /\ wsErr = "none"
    /\ wsSent = <<>>
    /\ wsRead = <<>>

WsReturn(res, err) ==
    /\ wsPc' = "returned"
    /\ wsResult' = res
    /\ wsErr' = err

\* what the `Err(e)` arm of the receive loop leads to: eprintln!, break, and
\* the function's final Ok(())
RecvErrorPropagated == "Err"
RecvErrorOutcome == "Ok"

\* let url = Url::parse(ws_url)?;
WsParse ==
    /\ wsPc = "parse"
    /\ \E ok \in BOOLEAN :
          IF ok THEN wsPc' = "connect" /\ UNCHANGED <<wsResult, wsErr>>
                ELSE WsReturn("Err", "UrlParse")
    /\ UNCHANGED <<wsSent, wsRead>>
    /\ UNCHANGED wsOthers

\* connect_async(url).await.map_err(..)?; ws_stream.split()
WsConnect ==
    /\ wsPc = "connect"
    /\ \E ok \in BOOLEAN :
          IF ok THEN wsPc' = "send" /\ UNCHANGED <<wsResult, wsErr>>
                ELSE WsReturn("Err", "Connect")
    /\ UNCHANGED <<wsSent, wsRead>>
    /\ UNCHANGED wsOthers

\* write.send(Message::Text(message_to_send.to_string())).await?;
WsSend ==
    /\ wsPc = "send"
    /\ \E ok \in BOOLEAN :
          IF ok THEN /\ wsSent' = Append(wsSent, HelloText)
                     /\ wsPc' = "loop"
                     /\ UNCHANGED <<wsResult, wsErr>>
                ELSE /\ WsReturn("Err", "Send")
                     /\ UNCHANGED wsSent
    /\ UNCHANGED wsRead
    /\ UNCHANGED wsOthers

\* Message::Text(text): break when text.contains(message_to_send)
WsRecvText ==
    /\ wsPc = "loop"
    /\ \E item \in WsTextItems :
          /\ ~item.echo => Len(wsRead) < MaxWsMessages
          /\ wsRead' = Append(wsRead, item)
          /\ IF EchoStops(item) THEN WsReturn("Ok", "none")
                          ELSE UNCHANGED <<wsPc, wsResult, wsErr>>
    /\ UNCHANGED wsSent
    /\ UNCHANGED wsOthers

\* Message::Binary(bin) / Message::Pong(pong_data): print and keep receiving
WsRecvPlain ==
    /\ wsPc = "loop"
    /\ Len(wsRead) < MaxWsMessages
    /\ \E item \in WsPlainItems : wsRead' = Append(wsRead, item)
    /\ UNCHANGED <<wsPc, wsResult, wsErr, wsSent>>
    /\ UNCHANGED wsOthers

\* Message::Ping(ping_data) => { println!("Received Ping, sending Pong"); ...
WsRecvPing ==
    /\ wsPc = "loop"
    /\ Len(wsRead) < MaxWsMessages
    /\ \E item \in WsPingItems : wsRead' = Append(wsRead, item)
    /\ wsPc' = "pong"
    /\ UNCHANGED <<wsResult, wsErr, wsSent>>
    /\ UNCHANGED wsOthers

\* write.send(Message::Pong(ping_data)).await?;  then the next read.next()
WsSendPong ==
    /\ wsPc = "pong"
    /\ \E ok \in BOOLEAN :
          IF ok THEN /\ wsSent' = Append(wsSent, PongOf(wsRead[Len(wsRead)]))
                     /\ wsPc' = "loop"
                     /\ UNCHANGED <<wsResult, wsErr>>
                ELSE /\ WsReturn("Err", "Send")
                     /\ UNCHANGED wsSent
    /\ UNCHANGED wsRead
    /\ UNCHANGED wsOthers

\* Message::Close(close_frame): break
WsRecvClose ==
    /\ wsPc = "loop"
    /\ wsRead' = Append(wsRead, WsCloseItem)
    /\ WsReturn("Ok", "none")
    /\ UNCHANGED wsSent
    /\ UNCHANGED wsOthers

\* Err(e) => { eprintln!(..); break; }  then  Ok(())
WsRecvError ==
    /\ wsPc = "loop"
    /\ wsRead' = Append(wsRead, WsErrItem)
    /\ WsReturn(RecvErrorOutcome, IF RecvErrorOutcome = "Err" THEN "Recv" ELSE "none")
    /\ UNCHANGED wsSent
    /\ UNCHANGED wsOthers

\* read.next().await yields None: the loop ends, Ok(())
WsRecvEnd ==
    /\ wsPc = "loop"
    /\ wsRead' = Append(wsRead, WsEndItem)
    /\ WsReturn("Ok", "none")
    /\ UNCHANGED wsSent
    /\ UNCHANGED wsOthers

(***************************************************************************)
(* http_get_request.rs :: http_get_text                                    *)
(***************************************************************************)
StatusCodes == 100 .. 599

HttpIdle ==
    /\ httpPc = "idle"
    /\ httpStatus = 0
    /\ httpResult = "none"
    /\ httpErrStatus = 0

HttpInit ==
    /\ httpPc = "send"
    /\ httpStatus = 0
    /\ httpResult = "none"
    /\ httpErrStatus = 0

\* StatusCode::is_success: 200..=299
IsSuccess(status) == status >= 200 /\ status <= 299

\* Response::error_for_status is Err exactly for a client error (400..=499)
\* or a server error (500..=599); otherwise it is Ok(response)
ErrorForStatusIsErrAnyNon2xx(status) == ~IsSuccess(status)
ErrorForStatusIsErr(status) == status >= 400 /\ status <= 599

\* let response = client.get(url).send()?;
HttpSend ==
    /\ httpPc = "send"
    /\ \/ /\ httpPc' = "returned"
          /\ httpResult' = "ErrSend"
          /\ UNCHANGED <<httpStatus, httpErrStatus>>
       \/ \E status \in StatusCodes :
             /\ httpStatus' = status
             /\ httpPc' = "check"
             /\ UNCHANGED <<httpResult, httpErrStatus>>
    /\ UNCHANGED httpOthers

\* if response.status().is_success() { response.text() }
\* else { Err(Error::from(response.error_for_status().unwrap_err())) }
HttpCheck ==
    /\ httpPc = "check"
    /\ httpPc' = "returned"
    /\ IF IsSuccess(httpStatus)
          THEN /\ \E ok \in BOOLEAN : httpResult' = IF ok THEN "OkBody" ELSE "ErrBody"
               /\ UNCHANGED httpErrStatus
          ELSE IF ErrorForStatusIsErr(httpStatus)
                  THEN httpResult' = "ErrStatus" /\ httpErrStatus' = httpStatus
                  ELSE httpResult' = "Panic" /\ UNCHANGED httpErrStatus
    /\ UNCHANGED httpStatus
    /\ UNCHANGED httpOthers

(***************************************************************************)
(* execute_command.rs :: execute_command                                   *)
(***************************************************************************)
MaxInput == 3
MaxPipeCap == 2
MaxRatio == 2
ChildKinds == {"filter", "ignores_stdin"}

EcIdle ==
    /\ ecPc = "idle"
    /\ ecHasInput = FALSE
    /\ ecLeft = 0
    /\ ecResult = "none"
    /\ ecCaptured = 0
    /\ pipeCap = 1
    /\ stdinPipe = 0
    /\ stdinOpen = FALSE
    /\ stdoutPipe = 0
    /\ childKind = "filter"
    /\ childRatio = 0
    /\ childState = "none"
    /\ childPending = 0

\* the arguments (input: None or Some of a length), the program that is run
\* and the pipe size of the platform
EcInit ==
    /\ ecPc = "spawn"
    /\ ecHasInput \in BOOLEAN
    /\ ecLeft \in 0 .. MaxInput
    /\ ~ecHasInput => ecLeft = 0
    /\ ecResult = "none"
    /\ ecCaptured = 0
    /\ pipeCap \in 1 .. MaxPipeCap
    /\ stdinPipe = 0
    /\ stdinOpen = FALSE
    /\ stdoutPipe = 0
    /\ childKind \in ChildKinds
    /\ childRatio \in 0 .. MaxRatio
    /\ childState = "none"
    /\ childPending = 0

\* what happens to the child on the `?` return of a failed write_all: the
\* Child value is dropped, and dropping a Child neither kills nor waits
ChildAfterWriteErrorWaited(st) == "reaped"
ChildAfterWriteError(st) == st

\* write(2) on a pipe makes progress only while the pipe has room
PipeHasRoomUnbounded(n, cap) == TRUE
PipeHasRoom(n, cap) == n < cap

\* let mut child = command.spawn()?;
EcSpawn ==
    /\ ecPc = "spawn"
    /\ \/ /\ ecPc' = "returned"
          /\ ecResult' = "Err"
          /\ UNCHANGED <<childState, stdinOpen, childPending>>
       \/ /\ childState' = "running"
          /\ stdinOpen' = ecHasInput
          /\ childPending' = IF ecHasInput /\ childKind = "filter" THEN 0 ELSE childRatio
          /\ ecPc' = IF ecHasInput THEN "write" ELSE "wait"
          /\ UNCHANGED ecResult
    /\ UNCHANGED <<ecHasInput, ecLeft, ecCaptured, pipeCap, stdinPipe, stdoutPipe,
                   childKind, childRatio>>
    /\ UNCHANGED ecOthers

\* stdin.write_all(input_data.as_bytes()): one more byte enters the pipe
EcWrite ==
    /\ ecPc = "write"
    /\ ecLeft > 0
    /\ childState = "running"
    /\ PipeHasRoom(stdinPipe, pipeCap)
    /\ stdinPipe' = stdinPipe + 1
    /\ ecLeft' = ecLeft - 1
    /\ UNCHANGED <<ecPc, ecHasInput, ecResult, ecCaptured, pipeCap, stdinOpen, stdoutPipe,
                   childKind, childRatio, childState, childPending>>
    /\ UNCHANGED ecOthers

\* write_all fails (the read end is closed: broken pipe) and `?` returns the error
EcWriteError ==
    /\ ecPc = "write"
    /\ ecLeft > 0
    /\ childState = "exited"
    /\ ecPc' = "returned"
    /\ ecResult' = "Err"
    /\ stdinOpen' = FALSE
    /\ childState' = ChildAfterWriteError(childState)
    /\ UNCHANGED <<ecHasInput, ecLeft, ecCaptured, pipeCap, stdinPipe, stdoutPipe,
                   childKind, childRatio, childPending>>
    /\ UNCHANGED ecOthers

\* write_all returned Ok: `stdin` goes out of scope and the pipe is closed
EcWriteDone ==
    /\ ecPc = "write"
    /\ ecLeft = 0
    /\ stdinOpen' = FALSE
    /\ ecPc' = "wait"
    /\ UNCHANGED <<ecHasInput, ecLeft, ecResult, ecCaptured, pipeCap, stdinPipe, stdoutPipe,
                   childKind, childRatio, childState, childPending>>
    /\ UNCHANGED ecOthers

\* child.wait_with_output(): read the child's output until end-of-file ...
EcReadOutput ==
    /\ ecPc = "wait"
    /\ stdoutPipe > 0
    /\ stdoutPipe' = stdoutPipe - 1
    /\ ecCaptured' = ecCaptured + 1
    /\ UNCHANGED <<ecPc, ecHasInput, ecLeft, ecResult, pipeCap, stdinPipe, stdinOpen,
                   childKind, childRatio, childState, childPending>>
    /\ UNCHANGED ecOthers

\* ... then wait for the child and return Ok(Output)
EcWaited ==
    /\ ecPc = "wait"
    /\ stdoutPipe = 0
    /\ childState = "exited"
    /\ childState' = "reaped"
    /\ ecResult' = "Ok"
    /\ ecPc' = "returned"
    /\ UNCHANGED <<ecHasInput, ecLeft, ecCaptured, pipeCap, stdinPipe, stdinOpen, stdoutPipe,
                   childKind, childRatio, childPending>>
    /\ UNCHANGED ecOthers

\* the spawned program reads a byte of its stdin (a filter such as grep or cat)
ChildRead ==
    /\ childState = "running"
    /\ childKind = "filter"
    /\ childPending = 0
    /\ stdinPipe > 0
    /\ stdinPipe' = stdinPipe - 1
    /\ childPending' = childRatio
    /\ UNCHANGED <<ecPc, ecHasInput, ecLeft, ecResult, ecCaptured, pipeCap, stdinOpen,
                   stdoutPipe, childKind, childRatio, childState>>
    /\ UNCHANGED ecOthers

\* the spawned program writes a byte to its stdout pipe
ChildWrite ==
    /\ childState = "running"
    /\ childPending > 0
    /\ PipeHasRoom(stdoutPipe, pipeCap)
    /\ stdoutPipe' = stdoutPipe + 1
    /\ childPending' = childPending - 1
    /\ UNCHANGED <<ecPc, ecHasInput, ecLeft, ecResult, ecCaptured, pipeCap, stdinPipe,
                   stdinOpen, childKind, childRatio, childState>>
    /\ UNCHANGED ecOthers

\* the spawned program exits: a filter at end-of-file of its stdin, a program
\* that does not read its stdin whenever it likes
ChildExit ==
    /\ childState = "running"
    /\ childPending = 0
    /\ childKind = "filter" => stdinPipe = 0 /\ ~stdinOpen
    /\ childState' = "exited"
    /\ UNCHANGED <<ecPc, ecHasInput, ecLeft, ecResult, ecCaptured, pipeCap, stdinPipe,
                   stdinOpen, stdoutPipe, childKind, childRatio, childPending>>
    /\ UNCHANGED ecOthers

(***************************************************************************)
(* thiserror_custom_error.rs :: process_data                               *)
(***************************************************************************)
MaxInputLen == 5
PdChars == {"-", "+", "0", "1", "9", "x"}
PdDigits == {"0", "1", "9"}
I32Max == 2147483647

RECURSIVE StringsUpTo(_, _)
StringsUpTo(chars, n) ==
    IF n = 0 THEN {<<>>}
    ELSE LET shorter == StringsUpTo(chars, n - 1)
         IN  shorter \cup {Append(s, c) : s \in shorter, c \in chars}

DigitValue(c) == IF c = "0" THEN 0 ELSE IF c = "1" THEN 1 ELSE 9

I32Min == -2147483647 - 1

\* the digit loop of from_str: it accumulates upwards for a positive number
\* and downwards for a negative one, and fails on a character that is not a
\* digit or when the next step would leave the i32 range
RECURSIVE Accumulate(_, _, _)
Accumulate(digits, acc, negative) ==
    IF digits = <<>> THEN [ok |-> TRUE, val |-> acc]
    ELSE IF Head(digits) \notin PdDigits THEN [ok |-> FALSE, val |-> 0]
    ELSE LET d == DigitValue(Head(digits))
             fits == IF negative THEN acc >= (I32Min + d + 9) \div 10
                                 ELSE acc <= (I32Max - d) \div 10
         IN  IF ~fits THEN [ok |-> FALSE, val |-> 0]
             ELSE Accumulate(Tail(digits), IF negative THEN acc * 10 - d ELSE acc * 10 + d,
                             negative)

\* <i32 as FromStr>::from_str: an optional sign, then at least one digit,
\* nothing else, and the value must fit
ParseI32(str) ==
    LET negative == str # <<>> /\ Head(str) = "-"
        signed == str # <<>> /\ Head(str) \in {"-", "+"}
        digits == IF signed THEN Tail(str) ELSE str
    IN  IF digits = <<>> THEN [ok |-> FALSE, val |-> 0]
        ELSE Accumulate(digits, 0, negative)

\* if number < 0
IsNegative(n) == n < 0

\* if number > 1000
ExceedsMaxOffByOne(n) == n >= 1000
ExceedsMax(n) == n > 1000

PdIdle ==
    /\ pdPc = "idle"
    /\ pdInput = <<>>
    /\ pdFileOpens = FALSE
    /\ pdNumber = 0
    /\ pdKind = "none"
    /\ pdValue = 0

\* the arguments: any input string, and a path that can or cannot be opened
PdInit ==
    /\ pdPc = "open"
    /\ pdInput \in StringsUpTo(PdChars, MaxInputLen)
    /\ pdFileOpens \in BOOLEAN
    /\ pdNumber = 0
    /\ pdKind = "none"
    /\ pdValue = 0

PdReturn(kind, value) ==
    /\ pdPc' = "returned"
    /\ pdKind' = kind
    /\ pdValue' = value

\* let _file = File::open(file_path)?;
PdOpen ==
    /\ pdPc = "open"
    /\ IF pdFileOpens
          THEN pdPc' = "parse" /\ UNCHANGED <<pdKind, pdValue>>
          ELSE PdReturn("Io", 0)
    /\ UNCHANGED <<pdInput, pdFileOpens, pdNumber>>
    /\ UNCHANGED pdOthers

\* let number: i32 = input_str.parse()?;
PdParse ==
    /\ pdPc = "parse"
    /\ LET r == ParseI32(pdInput)
       IN  IF r.ok
              THEN pdNumber' = r.val /\ pdPc' = "validate" /\ UNCHANGED <<pdKind, pdValue>>
              ELSE PdReturn("Parse", 0) /\ UNCHANGED pdNumber
    /\ UNCHANGED <<pdInput, pdFileOpens>>
    /\ UNCHANGED pdOthers

\* the two range checks, then Ok(number * 2)
PdValidate ==
    /\ pdPc = "validate"
    /\ IF IsNegative(pdNumber) THEN PdReturn("InvalidData", 0)
       ELSE IF ExceedsMax(pdNumber) THEN PdReturn("ConfigError", 0)
       ELSE PdReturn("Ok", pdNumber * 2)
    /\ UNCHANGED <<pdInput, pdFileOpens, pdNumber>>
    /\ UNCHANGED pdOthers

(***************************************************************************)
(* write_text_file.rs :: write_text_file                                   *)
(* read_text_file.rs  :: read_text_file                                    *)
(***************************************************************************)
MaxWrites == 2
MaxLines == 2
LineValues == {<<"a">>, <<"a", "\n", "b">>, <<"b", "\r">>}
InitialContents == {<<"x">>}

RECURSIVE ListsUpTo(_, _)
ListsUpTo(values, n) ==
    IF n = 0 THEN {<<>>}
    ELSE LET shorter == ListsUpTo(values, n - 1)
         IN  shorter \cup {Append(l, v) : l \in shorter, v \in values}

\* OpenOptions: .truncate(overwrite) and .append(!overwrite)
TruncateFlag(overwrite) == overwrite
AppendFlagForgotten(overwrite) == FALSE
AppendFlag(overwrite) == ~overwrite

\* for line in lines { writeln!(writer, "{}", line)?; }
RECURSIVE WriteLnAllNoNewline(_)
WriteLnAllNoNewline(lines) ==
    IF lines = <<>> THEN <<>> ELSE Head(lines) \o WriteLnAllNoNewline(Tail(lines))
RECURSIVE WriteLnAll(_)
WriteLnAll(lines) ==
    IF lines = <<>> THEN <<>> ELSE Head(lines) \o <<"\n">> \o WriteLnAll(Tail(lines))

\* the content of the file right after open(): empty when it was created or truncated
OpenedContent(exists, content, truncate) ==
    IF ~exists \/ truncate THEN <<>> ELSE content

\* writing `data` through a handle: at the end in append mode, from offset 0 otherwise
WriteThrough(content, data, append) ==
    IF append THEN content \o data
    ELSE data \o SubSeq(content, Len(data) + 1, Len(content))

RECURSIVE FirstNewline(_, _)
FirstNewline(content, k) ==
    IF k > Len(content) THEN 0
    ELSE IF content[k] = "\n" THEN k
    ELSE FirstNewline(content, k + 1)

StripCr(line) ==
    IF line # <<>> /\ line[Len(line)] = "\r" THEN SubSeq(line, 1, Len(line) - 1) ELSE line

\* BufRead::lines: each item ends at a "\n", which is removed together with a
\* "\r" right before it; a last piece without "\n" is an item as it is
RECURSIVE ReadLines(_)
ReadLines(content) ==
    IF content = <<>> THEN <<>>
    ELSE LET k == FirstNewline(content, 1)
         IN  IF k = 0 THEN <<content>>
             ELSE <<StripCr(SubSeq(content, 1, k - 1))>>
                      \o ReadLines(SubSeq(content, k + 1, Len(content)))

NotRead == [result |-> "none", lines |-> <<>>]

TfIdle ==
    /\ fsExists = FALSE
    /\ fsContent = <<>>
    /\ tfCalls = 0
    /\ tfPrevExists = FALSE
    /\ tfPrev = <<>>
    /\ tfLines = <<>>
    /\ tfOverwrite = FALSE
    /\ tfWriteResult = "idle"
    /\ tfAppended = <<>>
    /\ tfOnlyAppends = FALSE
    /\ tfRead = NotRead

\* the file is missing, or exists with some earlier content
TfInit ==
    /\ \/ fsExists = FALSE /\ fsContent = <<>>
       \/ fsExists = TRUE /\ fsContent \in InitialContents
    /\ tfCalls = 0
    /\ tfPrevExists = fsExists
    /\ tfPrev = fsContent
    /\ tfLines = <<>>
    /\ tfOverwrite = FALSE
    /\ tfWriteResult = "none"
    /\ tfAppended = <<>>
    /\ tfOnlyAppends = ~fsExists
    /\ tfRead = NotRead

TfCallStarts(overwrite) ==
    /\ tfCalls < MaxWrites
    /\ tfWriteResult # "idle"
    /\ tfCalls' = tfCalls + 1
    /\ tfPrevExists' = fsExists
    /\ tfPrev' = fsContent
    /\ tfOverwrite' = overwrite
    /\ tfRead' = NotRead

\* write_text_file(filepath, lines, overwrite) returning Ok(())
TfWriteOk ==
    \E lines \in ListsUpTo(LineValues, MaxLines), overwrite \in BOOLEAN :
        /\ TfCallStarts(overwrite)
        /\ fsExists' = TRUE
        /\ fsContent' = WriteThrough(OpenedContent(fsExists, fsContent, TruncateFlag(overwrite)),
                                     WriteLnAll(lines), AppendFlag(overwrite))
        /\ tfLines' = lines
        /\ tfWriteResult' = "Ok"
        /\ tfAppended' = tfAppended \o lines
        /\ tfOnlyAppends' = (tfOnlyAppends /\ ~overwrite)
        /\ UNCHANGED tfOthers

\* .open(filepath)? fails: nothing is created or changed
TfOpenFails ==
    \E overwrite \in BOOLEAN :
        /\ TfCallStarts(overwrite)
        /\ tfLines' = <<>>
        /\ tfWriteResult' = "Err"
        /\ tfOnlyAppends' = FALSE
        /\ UNCHANGED <<fsExists, fsContent, tfAppended>>
        /\ UNCHANGED tfOthers

\* writeln!/flush fail after the file was opened (created, truncated): none
\* of the new lines reaches the file
TfWriteFails ==
    \E overwrite \in BOOLEAN :
        /\ TfCallStarts(overwrite)
        /\ fsExists' = TRUE
        /\ fsContent' = OpenedContent(fsExists, fsContent, TruncateFlag(overwrite))
        /\ tfLines' = <<>>
        /\ tfWriteResult' = "Err"
        /\ tfOnlyAppends' = FALSE
        /\ UNCHANGED tfAppended
        /\ UNCHANGED tfOthers

\* read_text_file(filepath): File::open(filepath)?, then reader.lines().collect()
TfReadFile ==
    /\ tfWriteResult \notin {"idle", "none"}
    /\ tfRead = NotRead
    /\ tfRead' = IF fsExists THEN [result |-> "Ok", lines |-> ReadLines(fsContent)]
                             ELSE [result |-> "Err", lines |-> <<>>]
    /\ UNCHANGED <<fsExists, fsContent, tfCalls, tfPrevExists, tfPrev, tfLines, tfOverwrite,
                   tfWriteResult, tfAppended, tfOnlyAppends>>
    /\ UNCHANGED tfOthers

(***************************************************************************)
(* json_serialization.rs :: Point and the four (de)serialization functions *)
(***************************************************************************)
MaxLabelLen == 2
MaxTags == 2
LabelChars == {"a", "\"", "\\", "\n"}
TagValues == {<<"a">>, <<"\"">>, <<"a", "\\">>}
IntSamples == {-2147483647, 0, 10}
JsonDigits == <<"0", "1", "2", "3", "4", "5", "6", "7", "8", "9">>

Points ==
    [x : IntSamples, y : IntSamples,
     label : StringsUpTo(LabelChars, MaxLabelLen),
     tags : ListsUpTo(TagValues, MaxTags)]

NoPoint == [x |-> 0, y |-> 0, label |-> <<>>, tags |-> <<>>]
Failed == [ok |-> FALSE, point |-> NoPoint]

\* ---- serde_json::to_string_pretty ----

RECURSIVE FormatDigits(_)
FormatDigits(n) ==
    IF n < 10 THEN <<JsonDigits[n + 1]>>
    ELSE FormatDigits(n \div 10) \o <<JsonDigits[(n % 10) + 1]>>

\* an i32 is written in decimal, with a leading "-" when negative
FormatI32(n) == IF n < 0 THEN <<"-">> \o FormatDigits(0 - n) ELSE FormatDigits(n)

\* inside a JSON string the quote, the backslash and control characters are escaped
EscapeCharRaw(c) == <<c>>
EscapeChar(c) ==
    IF c = "\"" THEN <<"\\", "\"">>
    ELSE IF c = "\\" THEN <<"\\", "\\">>
    ELSE IF c = "\n" THEN <<"\\", "n">>
    ELSE <<c>>

RECURSIVE EscapeAll(_)
EscapeAll(str) == IF str = <<>> THEN <<>> ELSE EscapeChar(Head(str)) \o EscapeAll(Tail(str))

FormatString(str) == <<"\"">> \o EscapeAll(str) \o <<"\"">>

Indent(n) == [k \in 1 .. 2 * n |-> " "]

RECURSIVE FormatItems(_)
FormatItems(items) ==
    IF items = <<>> THEN <<>>
    ELSE <<"\n">> \o Indent(2) \o FormatString(Head(items))
            \o (IF Len(items) > 1 THEN <<",">> ELSE <<>>) \o FormatItems(Tail(items))

\* an empty array is "[]"; otherwise one item per line
FormatStringArray(items) ==
    IF items = <<>> THEN <<"[", "]">>
    ELSE <<"[">> \o FormatItems(items) \o <<"\n">> \o Indent(1) \o <<"]">>

FormatKey(name) == <<"\n">> \o Indent(1) \o FormatString(name) \o <<":", " ">>

\* serialize_struct_to_json_string for a Point: the derived Serialize writes
\* the fields in declaration order
ToStringPretty(p) ==
    <<"{">>
    \o FormatKey(<<"x">>) \o FormatI32(p.x) \o <<",">>
    \o FormatKey(<<"y">>) \o FormatI32(p.y) \o <<",">>
    \o FormatKey(<<"l", "a", "b", "e", "l">>) \o FormatString(p.label) \o <<",">>
    \o FormatKey(<<"t", "a", "g", "s">>) \o FormatStringArray(p.tags)
    \o <<"\n", "}">>

\* ---- serde_json::from_str ----
\* every parser takes the text and a position and yields [ok, pos, val]

Bad == [ok |-> FALSE, pos |-> 0]
CharAt(s, p) == IF p <= Len(s) THEN s[p] ELSE "EOF"

RECURSIVE SkipWs(_, _)
SkipWs(s, p) == IF CharAt(s, p) \in {" ", "\n"} THEN SkipWs(s, p + 1) ELSE p

DigitOf(c) == CHOOSE d \in 0 .. 9 : JsonDigits[d + 1] = c
IsDigit(c) == \E d \in 0 .. 9 : JsonDigits[d + 1] = c

\* digits are accumulated; a value outside the i32 range is an error for an i32 field
RECURSIVE ParseDigits(_, _, _, _)
ParseDigits(s, p, acc, negative) ==
    IF ~IsDigit(CharAt(s, p)) THEN [ok |-> TRUE, pos |-> p, val |-> acc]
    ELSE LET d == DigitOf(s[p])
             fits == IF negative THEN acc >= (I32Min + d + 9) \div 10
                                 ELSE acc <= (I32Max - d) \div 10
         IN  IF ~fits THEN Bad
             ELSE ParseDigits(s, p + 1, IF negative THEN acc * 10 - d ELSE acc * 10 + d,
                              negative)

ParseI32Json(s, p) ==
    LET negative == CharAt(s, p) = "-"
        q == IF negative THEN p + 1 ELSE p
    IN  IF ~IsDigit(CharAt(s, q)) THEN Bad
        ELSE IF s[q] = "0" /\ IsDigit(CharAt(s, q + 1)) THEN Bad
        ELSE ParseDigits(s, q, 0, negative)

\* the characters after the opening quote, up to the closing quote
RECURSIVE ParseStringBody(_, _, _)
ParseStringBody(s, p, acc) ==
    LET c == CharAt(s, p)
    IN  IF c = "EOF" \/ c = "\n" THEN Bad
        ELSE IF c = "\"" THEN [ok |-> TRUE, pos |-> p + 1, val |-> acc]
        ELSE IF c = "\\"
             THEN LET e == CharAt(s, p + 1)
                  IN  IF e = "\"" THEN ParseStringBody(s, p + 2, Append(acc, "\""))
                      ELSE IF e = "\\" THEN ParseStringBody(s, p + 2, Append(acc, "\\"))
                      ELSE IF e = "n" THEN ParseStringBody(s, p + 2, Append(acc, "\n"))
                      ELSE Bad
        ELSE ParseStringBody(s, p + 1, Append(acc, c))

ParseJsonString(s, p) ==
    IF CharAt(s, p) = "\"" THEN ParseStringBody(s, p + 1, <<>>) ELSE Bad

\* the items of an array after the first one: ("," string)* "]"
RECURSIVE ParseMoreItems(_, _, _)
ParseMoreItems(s, p, acc) ==
    LET q == SkipWs(s, p)
    IN  IF CharAt(s, q) = "]" THEN [ok |-> TRUE, pos |-> q + 1, val |-> acc]
        ELSE IF CharAt(s, q) # "," THEN Bad
        ELSE LET item == ParseJsonString(s, SkipWs(s, q + 1))
             IN  IF ~item.ok THEN Bad
                 ELSE ParseMoreItems(s, item.pos, Append(acc, item.val))

ParseStringArray(s, p) ==
    IF CharAt(s, p) # "[" THEN Bad
    ELSE LET q == SkipWs(s, p + 1)
         IN  IF CharAt(s, q) = "]" THEN [ok |-> TRUE, pos |-> q + 1, val |-> <<>>]
             ELSE LET item == ParseJsonString(s, q)
                  IN  IF ~item.ok THEN Bad ELSE ParseMoreItems(s, item.pos, <<item.val>>)

FieldNames == {<<"x">>, <<"y">>, <<"l", "a", "b", "e", "l">>, <<"t", "a", "g", "s">>}

\* the value of one member, by the type of the field the key names
ParseField(s, p, key) ==
    IF key \in {<<"x">>, <<"y">>} THEN ParseI32Json(s, p)
    ELSE IF key = <<"l", "a", "b", "e", "l">> THEN ParseJsonString(s, p)
    ELSE ParseStringArray(s, p)

StoreField(point, key, val) ==
    IF key = <<"x">> THEN [point EXCEPT !.x = val]
    ELSE IF key = <<"y">> THEN [point EXCEPT !.y = val]
    ELSE IF key = <<"l", "a", "b", "e", "l">> THEN [point EXCEPT !.label = val]
    ELSE [point EXCEPT !.tags = val]

\* the members of the object, in any order; a member that is not a field of
\* Point, a field given twice or a field left out is an error here
RECURSIVE ParseMembers(_, _, _, _)
ParseMembers(s, p, point, seen) ==
    LET key == ParseJsonString(s, SkipWs(s, p))
    IN  IF ~key.ok \/ key.val \notin FieldNames \/ key.val \in seen THEN Bad
        ELSE LET colon == SkipWs(s, key.pos)
             IN  IF CharAt(s, colon) # ":" THEN Bad
                 ELSE LET field == ParseField(s, SkipWs(s, colon + 1), key.val)
                      IN  IF ~field.ok THEN Bad
                          ELSE LET q == SkipWs(s, field.pos)
                                   stored == StoreField(point, key.val, field.val)
                                   now == seen \cup {key.val}
                               IN  IF CharAt(s, q) = ","
                                      THEN ParseMembers(s, q + 1, stored, now)
                                   ELSE IF CharAt(s, q) = "}" /\ now = FieldNames
                                      THEN [ok |-> TRUE, pos |-> q + 1, val |-> stored]
                                   ELSE Bad

\* deserialize_json_string_to_struct::<Point>: one object, then only white space
FromStr(s) ==
    LET p == SkipWs(s, 1)
    IN  IF CharAt(s, p) # "{" THEN Failed
        ELSE LET members == ParseMembers(s, p + 1, NoPoint, {})
             IN  IF ~members.ok THEN Failed
                 ELSE IF SkipWs(s, members.pos) <= Len(s) THEN Failed
                 ELSE [ok |-> TRUE, point |-> members.val]

\* ---- serde_json::to_value / from_value ----

NumberValue(n) == [type |-> "Number", n |-> n, s |-> <<>>, items |-> <<>>]
StringValue(str) == [type |-> "String", n |-> 0, s |-> str, items |-> <<>>]
ArrayValue(items) == [type |-> "Array", n |-> 0, s |-> <<>>, items |-> items]
NullValue == [type |-> "Null", n |-> 0, s |-> <<>>, items |-> <<>>]

\* serialize_struct_to_json_value for a Point: Value::Object with one entry per field
ToValue(p) ==
    [x |-> NumberValue(p.x),
     y |-> NumberValue(p.y),
     label |-> StringValue(p.label),
     tags |-> ArrayValue([k \in 1 .. Len(p.tags) |-> StringValue(p.tags[k])])]

NoValueYet == [x |-> NullValue, y |-> NullValue, label |-> NullValue, tags |-> NullValue]

\* deserialize_json_value_to_struct::<Point>: each entry must have the type of its field
FromValue(v) ==
    IF /\ v.x.type = "Number" /\ v.x.n >= I32Min /\ v.x.n <= I32Max
       /\ v.y.type = "Number" /\ v.y.n >= I32Min /\ v.y.n <= I32Max
       /\ v.label.type = "String"
       /\ v.tags.type = "Array"
       /\ \A k \in 1 .. Len(v.tags.items) : v.tags.items[k].type = "String"
    THEN [ok |-> TRUE,
          point |-> [x |-> v.x.n, y |-> v.y.n, label |-> v.label.s,
                     tags |-> [k \in 1 .. Len(v.tags.items) |-> v.tags.items[k].s]]]
    ELSE Failed

JsIdle ==
    /\ jsPoint = NoPoint
    /\ jsStrPc = "idle"
    /\ jsString = <<>>
    /\ jsFromString = Failed
    /\ jsValPc = "idle"
    /\ jsValue = NoValueYet
    /\ jsFromValue = Failed

JsInit ==
    /\ jsPoint \in Points
    /\ jsStrPc = "serialize"
    /\ jsString = <<>>
    /\ jsFromString = Failed
    /\ jsValPc = "serialize"
    /\ jsValue = NoValueYet
    /\ jsFromValue = Failed

\* let json_str = serialize_struct_to_json_string(&point)
JsSerializeString ==
    /\ jsStrPc = "serialize"
    /\ jsString' = ToStringPretty(jsPoint)
    /\ jsStrPc' = "deserialize"
    /\ UNCHANGED <<jsPoint, jsFromString, jsValPc, jsValue, jsFromValue>>
    /\ UNCHANGED jsOthers

\* deserialize_json_string_to_struct(&json_str)
JsDeserializeString ==
    /\ jsStrPc = "deserialize"
    /\ jsFromString' = FromStr(jsString)
    /\ jsStrPc' = "done"
    /\ UNCHANGED <<jsPoint, jsString, jsValPc, jsValue, jsFromValue>>
    /\ UNCHANGED jsOthers

\* let json_val = serialize_struct_to_json_value(&point)
JsSerializeValue ==
    /\ jsValPc = "serialize"
    /\ jsValue' = ToValue(jsPoint)
    /\ jsValPc' = "deserialize"
    /\ UNCHANGED <<jsPoint, jsStrPc, jsString, jsFromString, jsFromValue>>
    /\ UNCHANGED jsOthers

\* deserialize_json_value_to_struct(json_val)
JsDeserializeValue ==
    /\ jsValPc = "deserialize"
    /\ jsFromValue' = FromValue(jsValue)
    /\ jsValPc' = "done"
    /\ UNCHANGED <<jsPoint, jsStrPc, jsString, jsFromString, jsValue>>
    /\ UNCHANGED jsOthers

(***************************************************************************)
(* rayon_parallel_iteration.rs :: sum_of_squares_sequential / _parallel    *)
(***************************************************************************)
MaxSliceLen == 3
\* i64 is scaled down to I64Bits bits, two's complement
I64Bits == 4
I64Min == 0 - 2 ^ (I64Bits - 1)
I64Max == 2 ^ (I64Bits - 1) - 1
RsValues == {-3, -2, 0, 1, 3}

WrapI64(v) == ((v - I64Min) % (2 ^ I64Bits)) + I64Min

Panicked == [panic |-> TRUE, val |-> 0]
Returned(v) == [panic |-> FALSE, val |-> v]

\* the outcome of an arithmetic operation whose mathematical result is v
Arith(v, checked) ==
    IF v >= I64Min /\ v <= I64Max THEN Returned(v)
    ELSE IF checked THEN Panicked
    ELSE Returned(WrapI64(v))

\* |&x| x * x
Square(x, checked) == Arith(x * x, checked)

\* the + of Sum for i64; a panic on either side is a panic
AddSaturating(a, b, checked) ==
    IF a.panic \/ b.panic THEN Panicked
    ELSE IF a.val + b.val > I64Max THEN Returned(I64Max)
    ELSE IF a.val + b.val < I64Min THEN Returned(I64Min)
    ELSE Returned(a.val + b.val)
Add(a, b, checked) ==
    IF a.panic \/ b.panic THEN Panicked ELSE Arith(a.val + b.val, checked)

\* numbers[lo ..= hi].iter().map(|&x| x * x).sum(): a left fold starting at 0
RECURSIVE SumOfSquares(_, _, _, _, _)
SumOfSquares(numbers, lo, hi, acc, checked) ==
    IF lo > hi THEN acc
    ELSE SumOfSquares(numbers, lo + 1, hi,
                      Add(acc, Square(numbers[lo], checked), checked), checked)

Chunk(lo, hi, done, sum) == [lo |-> lo, hi |-> hi, done |-> done, sum |-> sum]

\* parts with the entries from..to replaced by the sequence by
Replace(parts, from, to, by) ==
    SubSeq(parts, 1, from - 1) \o by \o SubSeq(parts, to + 1, Len(parts))

RsIdle ==
    /\ rsNumbers = <<>>
    /\ rsChecked = FALSE
    /\ rsSeqPc = "idle"
    /\ rsSeq = Returned(0)
    /\ rsParPc = "idle"
    /\ rsParts = <<>>
    /\ rsCombines = 0
    /\ rsPar = Returned(0)

RsInit ==
    /\ rsNumbers \in ListsUpTo(RsValues, MaxSliceLen)
    /\ rsChecked \in BOOLEAN
    /\ rsSeqPc = "call"
    /\ rsSeq = Returned(0)
    /\ rsParPc = "running"
    /\ rsParts = <<Chunk(1, Len(rsNumbers), FALSE, Returned(0))>>
    /\ rsCombines = 0
    /\ rsPar = Returned(0)

\* sum_of_squares_sequential(&numbers)
RsSequential ==
    /\ rsSeqPc = "call"
    /\ rsSeq' = SumOfSquares(rsNumbers, 1, Len(rsNumbers), Returned(0), rsChecked)
    /\ rsSeqPc' = "done"
    /\ UNCHANGED <<rsNumbers, rsChecked, rsParPc, rsParts, rsCombines, rsPar>>
    /\ UNCHANGED rsOthers

\* par_iter(): the runtime splits a chunk it has not summed yet in two, anywhere
RsSplit ==
    /\ rsParPc = "running"
    /\ \E i \in 1 .. Len(rsParts) :
        /\ ~rsParts[i].done
        /\ \E mid \in rsParts[i].lo .. rsParts[i].hi - 1 :
            rsParts' = Replace(rsParts, i, i,
                               <<Chunk(rsParts[i].lo, mid, FALSE, Returned(0)),
                                 Chunk(mid + 1, rsParts[i].hi, FALSE, Returned(0))>>)
    /\ UNCHANGED <<rsNumbers, rsChecked, rsSeqPc, rsSeq, rsParPc, rsCombines, rsPar>>
    /\ UNCHANGED rsOthers

\* a worker maps and sums one chunk
RsSumChunk ==
    /\ rsParPc = "running"
    /\ \E i \in 1 .. Len(rsParts) :
        /\ ~rsParts[i].done
        /\ rsParts' = [rsParts EXCEPT ![i] =
               Chunk(@.lo, @.hi, TRUE,
                     SumOfSquares(rsNumbers, @.lo, @.hi, Returned(0), rsChecked))]
    /\ UNCHANGED <<rsNumbers, rsChecked, rsSeqPc, rsSeq, rsParPc, rsCombines, rsPar>>
    /\ UNCHANGED rsOthers

\* two neighbouring partial sums are added, left + right
RsCombine ==
    /\ rsParPc = "running"
    /\ \E i \in 1 .. Len(rsParts) - 1 :
        /\ rsParts[i].done
        /\ rsParts[i + 1].done
        /\ rsParts' = Replace(rsParts, i, i + 1,
               <<Chunk(rsParts[i].lo, rsParts[i + 1].hi, TRUE,
                       Add(rsParts[i].sum, rsParts[i + 1].sum, rsChecked))>>)
    /\ rsCombines' = rsCombines + 1
    /\ UNCHANGED <<rsNumbers, rsChecked, rsSeqPc, rsSeq, rsParPc, rsPar>>
    /\ UNCHANGED rsOthers

\* sum() returns once one sum covers the slice
RsParallelReturns ==
    /\ rsParPc = "running"
    /\ Len(rsParts) = 1
    /\ rsParts[1].done
    /\ rsPar' = rsParts[1].sum
    /\ rsParPc' = "done"
    /\ UNCHANGED <<rsNumbers, rsChecked, rsSeqPc, rsSeq, rsParts, rsCombines>>
    /\ UNCHANGED rsOthers

vars == <<smVars, sjVars, mpVars, atVars, wsVars, httpVars, ecVars, pdVars, tfVars, jsVars, rsVars>>

SmNext ==
    \/ SmSpawn
    \/ \E t \in CounterThreads : SmThreadLock(t)
    \/ \E t \in CounterThreads : SmThreadIncr(t)
    \/ \E t \in CounterThreads : SmThreadUnlock(t)
    \/ SmJoin
    \/ SmRead

SjNext ==
    \/ SjSpawn
    \/ \E t \in JoinThreads : SjThreadSleep(t)
    \/ \E t \in JoinThreads : SjThreadFinish(t)
    \/ SjJoin

MpNext ==
    \/ MpSpawn
    \/ SenderSend
    \/ SenderSleep
    \/ SenderFinish
    \/ MpRecvSome
    \/ MpRecvSleep
    \/ MpRecvNone
    \/ MpAwaitSender

AtNext ==
    \/ AtStart
    \/ AtSpawn1
    \/ AtSpawn2
    \/ \E t \in Tasks : TaskStart(t)
    \/ \E t \in Tasks : TaskFinish(t)
    \/ AtAwait1
    \/ AtAwait2
    \/ AtReport

WsNext ==
    \/ WsParse
    \/ WsConnect
    \/ WsSend
    \/ WsRecvText
    \/ WsRecvPlain
    \/ WsRecvPing
    \/ WsSendPong
    \/ WsRecvClose
    \/ WsRecvError
    \/ WsRecvEnd

HttpNext ==
    \/ HttpSend
    \/ HttpCheck

EcNext ==
    \/ EcSpawn
    \/ EcWrite
    \/ EcWriteError
    \/ EcWriteDone
    \/ EcReadOutput
    \/ EcWaited
    \/ ChildRead
    \/ ChildWrite
    \/ ChildExit

CounterInit == SmInit /\ SjIdle /\ MpIdle /\ AtIdle /\ WsIdle /\ HttpIdle /\ EcIdle /\ PdIdle /\ TfIdle /\ JsIdle /\ RsIdle
SpecCounter == CounterInit /\ [][SmNext]_vars

JoinInit == SmIdle /\ SjInit /\ MpIdle /\ AtIdle /\ WsIdle /\ HttpIdle /\ EcIdle /\ PdIdle /\ TfIdle /\ JsIdle /\ RsIdle
SpecJoin == JoinInit /\ [][SjNext]_vars

MpscInit == SmIdle /\ SjIdle /\ MpInit /\ AtIdle /\ WsIdle /\ HttpIdle /\ EcIdle /\ PdIdle /\ TfIdle /\ JsIdle /\ RsIdle
SpecMpsc == MpscInit /\ [][MpNext]_vars

\* the Tokio runtime keeps polling every task that can make progress
SpecMpscFair == SpecMpsc /\ WF_vars(MpNext)

TasksInit == SmIdle /\ SjIdle /\ MpIdle /\ AtInit /\ WsIdle /\ HttpIdle /\ EcIdle /\ PdIdle /\ TfIdle /\ JsIdle /\ RsIdle
SpecTasks == TasksInit /\ [][AtNext]_vars

WebSocketInit == SmIdle /\ SjIdle /\ MpIdle /\ AtIdle /\ WsInit /\ HttpIdle /\ EcIdle /\ PdIdle /\ TfIdle /\ JsIdle /\ RsIdle
SpecWebSocket == WebSocketInit /\ [][WsNext]_vars

HttpGetInit == SmIdle /\ SjIdle /\ MpIdle /\ AtIdle /\ WsIdle /\ HttpInit /\ EcIdle /\ PdIdle /\ TfIdle /\ JsIdle /\ RsIdle
SpecHttp == HttpGetInit /\ [][HttpNext]_vars

CommandInit == SmIdle /\ SjIdle /\ MpIdle /\ AtIdle /\ WsIdle /\ HttpIdle /\ EcInit /\ PdIdle /\ TfIdle /\ JsIdle /\ RsIdle
SpecCommand == CommandInit /\ [][EcNext]_vars

PdNext ==
    \/ PdOpen
    \/ PdParse
    \/ PdValidate

ProcessDataInit == SmIdle /\ SjIdle /\ MpIdle /\ AtIdle /\ WsIdle /\ HttpIdle /\ EcIdle /\ PdInit /\ TfIdle /\ JsIdle /\ RsIdle
SpecProcessData == ProcessDataInit /\ [][PdNext]_vars

TfNext ==
    \/ TfWriteOk
    \/ TfOpenFails
    \/ TfWriteFails
    \/ TfReadFile

TextFileInit == SmIdle /\ SjIdle /\ MpIdle /\ AtIdle /\ WsIdle /\ HttpIdle /\ EcIdle /\ PdIdle /\ TfInit /\ JsIdle /\ RsIdle
SpecTextFile == TextFileInit /\ [][TfNext]_vars

JsNext ==
    \/ JsSerializeString
    \/ JsDeserializeString
    \/ JsSerializeValue
    \/ JsDeserializeValue

JsonInit == SmIdle /\ SjIdle /\ MpIdle /\ AtIdle /\ WsIdle /\ HttpIdle /\ EcIdle /\ PdIdle /\ TfIdle /\ JsInit /\ RsIdle
SpecJson == JsonInit /\ [][JsNext]_vars

RsNext ==
    \/ RsSequential
    \/ RsSplit
    \/ RsSumChunk
    \/ RsCombine
    \/ RsParallelReturns

RayonInit == SmIdle /\ SjIdle /\ MpIdle /\ AtIdle /\ WsIdle /\ HttpIdle /\ EcIdle /\ PdIdle /\ TfIdle /\ JsIdle /\ RsInit
SpecRayon == RayonInit /\ [][RsNext]_vars

\* C1: no increment is lost or applied twice, and once all 10 threads are joined
\* the counter read by the main thread is exactly 10 (the assert_eq! never fails).
C1_FinalCounterIsTen ==
    /\ smMain # "panicked"
    /\ counter = Cardinality({t \in CounterThreads : smPc[t] \in {"unlock", "done"}})
    /\ smMain = "done" => final_value = 10
    /\ smMain = "read" => counter = 10

C1_Witness == smMain = "done" /\ final_value = 10 /\ \A t \in CounterThreads : smPc[t] = "done"

\* C5: "All threads joined" is reached only after each of the 5 threads has
\* finished, and the collected results are [0, 2, 4, 6, 8] in spawn order.
C5_JoinedAfterAllFinished ==
    /\ sjMain = "joined" =>
          /\ \A t \in JoinThreads : sjPc[t] = "done"
          /\ results = <<0, 2, 4, 6, 8>>
    /\ \A k \in 1 .. Len(results) : results[k] = (k - 1) * 2 /\ sjPc[k - 1] = "done"

C5_Witness == sjMain = "joined" /\ results = <<0, 2, 4, 6, 8>>

Upto(n) == [k \in 1 .. n |-> k - 1]
IsPrefix(a, b) == Len(a) <= Len(b) /\ \A k \in 1 .. Len(a) : a[k] = b[k]

\* C2: the receiver gets exactly 0,1,...,9, each once and in sending order,
\* before it observes the channel as closed.
C2_ReceivedInOrder ==
    /\ IsPrefix(received, Upto(NumValues))
    /\ mpMain \in {"await", "done"} => received = Upto(NumValues)

C2_Witness == mpMain = "done" /\ received = <<0, 1, 2, 3, 4, 5, 6, 7, 8, 9>>

\* C3: recv returns None only after the sender dropped tx and the buffer is
\* drained, the sender has finished when it is awaited, and under fair
\* scheduling run_mpsc_example terminates.
C3_Terminates ==
    /\ [](mpMain \in {"await", "done"} => txDropped /\ chan = <<>> /\ senderPc = "done")
    /\ <>(mpMain = "done")

C3_Witness == mpMain = "done" /\ senderPc = "done" /\ txDropped /\ chan = <<>>

Index(log, line) == CHOOSE k \in 1 .. Len(log) : log[k] = line
Printed(log, line) == \E k \in 1 .. Len(log) : log[k] = line
PrintedBefore(log, a, b) == Printed(log, a) /\ Printed(log, b) /\ Index(log, a) < Index(log, b)

\* C6: "All tasks completed" is printed only after both tasks finished,
\* result1 is 42 and result2 is 24, and the result of task 1 is reported
\* before the result of task 2 whichever task finishes first.
C6_WaitsForBothTasks ==
    /\ Printed(atLog, "All tasks completed") =>
          /\ \A t \in Tasks : taskPc[t] = "done"
          /\ PrintedBefore(atLog, "Task 1: Finished", "All tasks completed")
          /\ PrintedBefore(atLog, "Task 2: Finished", "All tasks completed")
          /\ result1 = 42 /\ result2 = 24
    /\ atMain \in {"await2", "report", "done"} => result1 = 42
    /\ atMain \in {"report", "done"} => result2 = 24
    /\ Printed(atLog, "Task 2 result received") =>
          PrintedBefore(atLog, "Task 1 result received", "Task 2 result received")

C6_Witness ==
    /\ atMain = "done"
    /\ PrintedBefore(atLog, "Task 2: Finished", "Task 1: Finished")
    /\ PrintedBefore(atLog, "Task 1 result received", "Task 2 result received")
ReceiveErrorSeen == \E k \in 1 .. Len(wsRead) : wsRead[k] = WsErrItem

\* C7 (as claimed): after a successful handshake and send, a receive error
\* makes run_websocket_client return Err carrying that error, not Ok(()).
C7_RecvErrorReturnsErr ==
    wsPc = "returned" /\ ReceiveErrorSeen => wsResult = "Err" /\ wsErr = "Recv"

\* C7 (amended): a receive error ends the receive loop and the function
\* returns Ok(()); the error is printed, not returned.  Every Err that is
\* returned carries a URL parse, connect or send error.
C7_RecvErrorReturnsOk ==
    /\ wsPc = "returned" /\ ReceiveErrorSeen => wsResult = "Ok" /\ wsErr = "none"
    /\ wsResult = "Err" => wsErr \in {"UrlParse", "Connect", "Send"}

C7_Witness ==
    /\ wsPc = "returned"
    /\ ReceiveErrorSeen
    /\ wsSent # <<>>
    /\ wsResult = "Ok"

\* C8: http_get_text returns the body only for a 2xx status, and for every
\* other status it returns an Err carrying the status code; it never panics.
C8_Non2xxIsErr ==
    httpPc = "returned" /\ httpStatus # 0 =>
        /\ httpResult # "Panic"
        /\ httpResult = "OkBody" => IsSuccess(httpStatus)
        /\ ~IsSuccess(httpStatus) => httpResult = "ErrStatus" /\ httpErrStatus = httpStatus

\* C9: on every return path after a successful spawn the child has been
\* waited for (exited and reaped) before execute_command returns.
C9_ChildWaitedOnReturn ==
    ecPc = "returned" /\ childState # "none" => childState = "reaped"

ParentBlockedWriting ==
    ecPc = "write" /\ ecLeft > 0 /\ childState = "running" /\ ~PipeHasRoom(stdinPipe, pipeCap)
ChildBlockedWriting ==
    childState = "running" /\ childPending > 0 /\ ~PipeHasRoom(stdoutPipe, pipeCap)

\* C10: with Some(input) and a child that terminates once it has read its
\* stdin to end-of-file, the parent is never blocked writing the input while
\* the child is blocked writing its output.
C10_NoPipeDeadlock ==
    ecHasInput /\ childKind = "filter" => ~(ParentBlockedWriting /\ ChildBlockedWriting)

RECURSIVE PingData(_)
PingData(items) ==
    IF items = <<>> THEN <<>>
    ELSE IF Head(items).kind = "Ping" THEN <<Head(items).data>> \o PingData(Tail(items))
    ELSE PingData(Tail(items))

RECURSIVE PongData(_)
PongData(msgs) ==
    IF msgs = <<>> THEN <<>>
    ELSE IF Head(msgs).kind = "Pong" THEN <<Head(msgs).data>> \o PongData(Tail(msgs))
    ELSE PongData(Tail(msgs))

RECURSIVE CountKind(_, _)
CountKind(msgs, kind) ==
    IF msgs = <<>> THEN 0
    ELSE (IF Head(msgs).kind = kind THEN 1 ELSE 0) + CountKind(Tail(msgs), kind)

ButLast(seq) == SubSeq(seq, 1, Len(seq) - 1)

\* C17: every Ping received is answered with exactly one Pong carrying the
\* same payload, sent before the next message is read, and the loop goes on;
\* if sending that Pong fails the function returns Err.
C17_PingAnsweredByPong ==
    /\ wsPc = "loop" => PongData(wsSent) = PingData(wsRead)
    /\ wsPc = "pong" =>
          /\ wsRead[Len(wsRead)].kind = "Ping"
          /\ PongData(wsSent) = ButLast(PingData(wsRead))
    /\ wsPc = "returned" =>
          \/ PongData(wsSent) = PingData(wsRead)
          \/ /\ wsRead # <<>> /\ wsRead[Len(wsRead)].kind = "Ping"
             /\ PongData(wsSent) = ButLast(PingData(wsRead))
             /\ wsResult = "Err" /\ wsErr = "Send"

C17_Witness ==
    /\ wsPc = "loop"
    /\ PingData(wsRead) = <<"a", "b">>
    /\ PongData(wsSent) = <<"a", "b">>
    /\ Len(wsRead) = 3

\* C18: exactly one Text message is sent over the whole run and only after
\* the handshake succeeded (a URL parse or connect failure returns Err with
\* nothing sent), and receiving stops at the first Text that contains the
\* sent text.
C18_OneTextThenStopAtEcho ==
    /\ CountKind(wsSent, "Text") <= 1
    /\ wsPc \in {"parse", "connect", "send"} => wsSent = <<>>
    /\ wsErr \in {"UrlParse", "Connect"} => wsSent = <<>> /\ wsRead = <<>> /\ wsResult = "Err"
    /\ wsPc \in {"loop", "pong"} \/ wsRead # <<>> =>
          CountKind(wsSent, "Text") = 1 /\ wsSent[1] = HelloText
    /\ wsPc = "returned" /\ wsResult = "Ok" => CountKind(wsSent, "Text") = 1
    /\ \A k \in 1 .. Len(wsRead) :
          wsRead[k] = [kind |-> "Text", echo |-> TRUE] =>
              k = Len(wsRead) /\ wsPc = "returned" /\ wsResult = "Ok"

C18_Witness ==
    /\ wsPc = "returned"
    /\ Len(wsRead) = 3
    /\ wsRead[2] = [kind |-> "Text", echo |-> FALSE]
    /\ wsRead[3] = [kind |-> "Text", echo |-> TRUE]

\* C11: process_data returns Ok(2*n) exactly when the file can be opened and
\* the input parses to n with 0 <= n <= 1000; with an openable file it returns
\* InvalidData for every parsed n < 0 and ConfigError for every parsed
\* n > 1000; the outcomes exclude each other and cover all parsed values.
C11_ProcessDataOutcomes ==
    pdPc = "returned" =>
        LET r == ParseI32(pdInput)
        IN  /\ pdKind = "Ok" <=> pdFileOpens /\ r.ok /\ 0 <= r.val /\ r.val <= 1000
            /\ pdKind = "Ok" => pdValue = 2 * r.val
            /\ pdFileOpens /\ r.ok =>
                  /\ pdKind = "InvalidData" <=> r.val < 0
                  /\ pdKind = "ConfigError" <=> r.val > 1000
                  /\ pdKind \in {"Ok", "InvalidData", "ConfigError"}

C11_Witness ==
    /\ pdPc = "returned"
    /\ pdInput = <<"1", "0", "0", "0">>
    /\ pdKind = "Ok"
    /\ pdValue = 2000

\* C12: process_data called with an input that is not a valid integer returns
\* the Parse variant, for every file_path, including one that does not exist.
C12_BadInputIsParseError ==
    pdPc = "returned" /\ ~ParseI32(pdInput).ok => pdKind = "Parse"

ReadAfterOverwrite == tfRead # NotRead /\ tfWriteResult = "Ok" /\ tfOverwrite

HasNoLineBreak(line) ==
    /\ \A k \in 1 .. Len(line) : line[k] # "\n"
    /\ line = <<>> \/ line[Len(line)] # "\r"

\* C13 (as claimed): for every list of lines, after write_text_file(path,
\* lines, true) succeeds, read_text_file(path) returns exactly that list.
C13_RoundTripAnyLines ==
    ReadAfterOverwrite => tfRead.result = "Ok" /\ tfRead.lines = tfLines

\* C13 (amended): the same for every list of lines none of which contains a
\* "\n" or ends with a "\r".
C13_RoundTripPlainLines ==
    ReadAfterOverwrite /\ (\A k \in 1 .. Len(tfLines) : HasNoLineBreak(tfLines[k])) =>
        tfRead.result = "Ok" /\ tfRead.lines = tfLines

C13_Witness ==
    /\ ReadAfterOverwrite
    /\ tfPrev # <<>>
    /\ tfLines = <<<<"a">>, <<"a">>>>
    /\ tfRead.lines = tfLines

\* C14: with overwrite = true the file afterwards holds only the given lines;
\* with overwrite = false the previous content stays as a prefix and the given
\* lines follow it; a missing file is created in both modes, so after any
\* sequence of successful append calls the file holds the lines of every call
\* in call order.
C14_OverwriteOrAppend ==
    /\ tfWriteResult = "Ok" =>
          /\ fsExists
          /\ tfOverwrite => fsContent = WriteLnAll(tfLines)
          /\ ~tfOverwrite =>
                fsContent = (IF tfPrevExists THEN tfPrev ELSE <<>>) \o WriteLnAll(tfLines)
    /\ tfOnlyAppends => fsContent = WriteLnAll(tfAppended)

C14_Witness ==
    /\ tfOnlyAppends
    /\ tfCalls = 2
    /\ tfLines = <<<<"b", "\r">>>>
    /\ tfAppended = <<<<"a">>, <<"b", "\r">>>>
    /\ tfPrev = <<"a", "\n">>

\* C15: for every Point p, deserializing the JSON string of p gives p, and
\* deserializing the serde_json::Value of p gives p.
C15_JsonRoundTrip ==
    /\ jsStrPc = "done" => jsFromString.ok /\ jsFromString.point = jsPoint
    /\ jsValPc = "done" => jsFromValue.ok /\ jsFromValue.point = jsPoint

C15_Witness ==
    /\ jsStrPc = "done"
    /\ jsValPc = "done"
    /\ jsPoint.x = -2147483647
    /\ jsPoint.y = 10
    /\ jsPoint.label = <<"\"", "\\">>
    /\ jsPoint.tags = <<<<"a", "\\">>, <<"\"">>>>
    /\ jsFromString.point = jsPoint
    /\ jsFromValue.point = jsPoint

\* C16: for every slice, however the runtime splits it and in whatever order
\* it combines the partial sums, sum_of_squares_parallel has the outcome of
\* sum_of_squares_sequential: the same value, wrapped in the same way, or a
\* panic where the sequential sum panics.
C16_ParallelEqualsSequential ==
    (rsSeqPc = "done" /\ rsParPc = "done") => rsPar = rsSeq

C16_Witness ==
    /\ rsSeqPc = "done"
    /\ rsParPc = "done"
    /\ ~rsChecked
    /\ rsNumbers = <<3, -3, -2>>
    /\ rsCombines = 2
    /\ rsPar = Returned(WrapI64(22))
    /\ rsPar = rsSeq
====
